---- MODULE Spec2Model ----
(***************************************************************************)
(* Model of fix-path-env: src/src/lib.rs, fix_vars / fix / fix_all_vars.   *)
(*                                                                         *)
(* Text is a sequence of one-character strings.  Four characters have a    *)
(* spelled-out name: "LF" (newline), "ESC" (0x1B), "xFF" (a byte that is   *)
(* not valid UTF-8) and "U+FFFD" (the replacement character).              *)
(***************************************************************************)
EXTENDS Naturals, Sequences, FiniteSets

VARIABLES
  platform,   \* compile target: "windows", "macos" or "other"
  pc,         \* position of the call inside fix_vars
  vars,       \* the allow-list argument
  environ,    \* the process environment: a function key -> value
  env0,       \* history: the process environment when the call started
  shellRead,  \* history: SHELL has been looked up
  cmd,        \* the std::process::Command being built, or None
  spawned,    \* number of child processes started
  out,        \* the std::process::Output of the child, or None
  lines,      \* the non-empty lines of the stripped frame
  idx,        \* position of the for loop in lines
  extracted,  \* history: the (var, value) pairs the loop has bound so far
  err         \* the Error returned, or None

allvars == <<platform, pc, vars, environ, env0, shellRead, cmd, spawned, out,
             lines, idx, extracted, err>>

\* Option values: None, or Some(x) holding x as SomeOf(o)
None == <<>>
Some(x) == <<x>>
SomeOf(o) == o[1]

----------------------------------------------------------------------------
(* Bounds of the model.                                                    *)

\* most pieces of text between the first delimiter and the next
MaxFrameLen == 2

----------------------------------------------------------------------------
(* Text constants.                                                         *)

DELIM == <<"_","S","H","E","L","L","_","E","N","V","_",
           "D","E","L","I","M","I","T","E","R","_">>

KeyPATH  == <<"P","A","T","H">>
KeySHELL == <<"S","H","E","L","L">>
KeyB     == <<"B">>

MacDefaultShell   == <<"/","b","i","n","/","z","s","h">>
OtherDefaultShell == <<"/","b","i","n","/","s","h">>
UserShell         == <<"/","b","i","n","/","b","a","s","h">>
OldPath           == <<"/","o">>

\* pieces of shell output
RecPathA    == <<"P","A","T","H","=","/","a","LF">>
RecPathB    == <<"P","A","T","H","=","/","b","=","c","LF">>
JunkThenB   == <<"xFF","LF","LF","ESC","[","1","m","B","=","1","LF">>
RecEmptyKey == <<"=","x","LF">>
EmptyThenB  == <<"=","x","LF","P","A","T","H","=","/","b","LF">>
JunkLines   == <<"xFF","LF","LF">>
NoisePath   == <<"P","A","T","H","=","/","n","LF">>
Boom        == <<"b","o","o","m","xFF">>

Range(s) == {s[i] : i \in 1..Len(s)}

RECURSIVE Concat(_)
Concat(ss) == IF ss = <<>> THEN <<>> ELSE Head(ss) \o Concat(Tail(ss))

RECURSIVE Join(_, _)
Join(ss, d) ==
  IF Len(ss) = 1 THEN ss[1] ELSE ss[1] \o d \o Join(Tail(ss), d)

RECURSIVE SeqsUpTo(_, _)
SeqsUpTo(S, n) ==
  IF n = 0 THEN {<<>>}
  ELSE LET R == SeqsUpTo(S, n - 1)
       IN  R \cup {Append(r, x) : r \in {q \in R : Len(q) = n - 1}, x \in S}

----------------------------------------------------------------------------
(* Pure functions of the pipeline.                                         *)

\* String::from_utf8_lossy: an invalid byte becomes U+FFFD
FromUtf8Lossy(bytes) ==
  [i \in 1..Len(bytes) |-> IF bytes[i] = "xFF" THEN "U+FFFD" ELSE bytes[i]]

\* first index >= i at which d occurs in s, 0 when there is none
RECURSIVE FindFrom(_, _, _)
FindFrom(s, d, i) ==
  IF i + Len(d) - 1 > Len(s) THEN 0
  ELSE IF SubSeq(s, i, i + Len(d) - 1) = d THEN i
  ELSE FindFrom(s, d, i + 1)

\* str::split(pat): the pieces around the non-overlapping matches, in order
RECURSIVE Split(_, _)
Split(s, d) ==
  LET p == FindFrom(s, d, 1)
  IN  IF p = 0 THEN <<s>>
      ELSE <<SubSeq(s, 1, p - 1)>> \o Split(SubSeq(s, p + Len(d), Len(s)), d)

\* Iterator::nth(1); NthLast is the faulty variant that takes the last piece
NthLast(pieces) == Some(pieces[Len(pieces)])
Nth1(pieces) == IF Len(pieces) >= 2 THEN Some(pieces[2]) ELSE None

\* the parameter characters of a control sequence
CsiParams == {"0","1","2","3","4","5","6","7","8","9",";"}

\* strip_ansi_escapes::strip: printable characters and newlines pass, an
\* escape sequence (ESC x, or ESC [ parameters final) is dropped
RECURSIVE StripFrom(_, _, _)
StripFrom(s, i, st) ==
  IF i > Len(s) THEN <<>>
  ELSE LET c == s[i]
       IN  CASE st = "ground" ->
                  IF c = "ESC" THEN StripFrom(s, i + 1, "escape")
                  ELSE <<c>> \o StripFrom(s, i + 1, "ground")
             [] st = "escape" ->
                  IF c = "[" THEN StripFrom(s, i + 1, "csi")
                  ELSE IF c = "ESC" THEN StripFrom(s, i + 1, "escape")
                  ELSE IF c = "LF" THEN <<c>> \o StripFrom(s, i + 1, "escape")
                  ELSE StripFrom(s, i + 1, "ground")
             [] OTHER ->
                  IF c \in CsiParams THEN StripFrom(s, i + 1, "csi")
                  ELSE IF c = "ESC" THEN StripFrom(s, i + 1, "escape")
                  ELSE IF c = "LF" THEN <<c>> \o StripFrom(s, i + 1, "csi")
                  ELSE StripFrom(s, i + 1, "ground")

StripAnsi(text) == StripFrom(text, 1, "ground")

\* .split('\n').filter(|l| !l.is_empty())
NonEmptyLines(text) == SelectSeq(Split(text, <<"LF">>), LAMBDA l : l # <<>>)

\* line.splitn(2, '='): one piece when there is no '=', else the text before
\* the first '=' and the whole rest
Splitn2(line) ==
  LET p == FindFrom(line, <<"=">>, 1)
  IN  IF p = 0 THEN <<line>>
      ELSE <<SubSeq(line, 1, p - 1), SubSeq(line, p + 1, Len(line))>>

\* vars.is_empty() || vars.contains(&var); AcceptsListed is the faulty variant
\* without the empty-list case
AcceptsListed(L, var) == var \in Range(L)
Accepts(L, var) == L = <<>> \/ var \in Range(L)

\* std::env::set_var panics when the key is empty (setenv fails with EINVAL)
SetVarPanics(var, value) == var = <<>>

\* std::env::set_var otherwise: the key is bound to the value, replacing any
\* earlier one
SetVar(e, var, value) ==
  [k \in DOMAIN e \cup {var} |-> IF k = var THEN value ELSE e[k]]

\* out.status.success(); AnyStatus is the faulty variant that ignores the status
AnyStatus(status) == TRUE
StatusSuccess(status) == status = 0

\* #[cfg(windows)]; CfgNever is the faulty variant with the block compiled out
CfgNever == FALSE
CfgWindows == platform = "windows"

\* cfg!(target_os = "macos")
DefaultShell == IF platform = "macos" THEN MacDefaultShell ELSE OtherDefaultShell

----------------------------------------------------------------------------
(* Inputs.                                                                 *)

Platforms == {"windows", "macos", "other"}

InitialEnvs ==
  { [k \in {KeyPATH} |-> OldPath],
    [k \in {KeyPATH, KeySHELL} |-> IF k = KeyPATH THEN OldPath ELSE UserShell] }

AllowLists == {<<>>, <<KeyB>>}

HomeDirs == {None, Some(<<"/","h">>)}

Pieces ==
  {RecPathA, RecPathB, JunkThenB, RecEmptyKey, EmptyThenB, JunkLines}

FrameSegs == {Concat(ps) : ps \in SeqsUpTo(Pieces, MaxFrameLen)}

\* what the shell's start-up may print before the first delimiter
NoiseSegs == {<<>>, NoisePath}

\* what may follow the second delimiter: nothing (the script's own output),
\* noise, or noise with a third delimiter inside
TrailSegs == {<<>>, NoisePath, NoisePath \o DELIM \o NoisePath}

\* standard output with no, one, and two or three delimiters
Stdouts ==
  NoiseSegs
  \cup {Join(<<n, f>>, DELIM) : n \in NoiseSegs, f \in FrameSegs}
  \cup {Join(<<n, f, t>>, DELIM) :
          n \in NoiseSegs, f \in FrameSegs, t \in TrailSegs}

Stderrs == {Boom}

ExitCodes == {0, 1}

----------------------------------------------------------------------------
(* The state machine.                                                      *)

Init ==
  /\ platform \in Platforms
  /\ environ \in InitialEnvs
  /\ env0 = environ
  /\ pc = "Start"
  /\ vars = None
  /\ shellRead = FALSE
  /\ cmd = None
  /\ spawned = 0
  /\ out = None
  /\ lines = <<>>
  /\ idx = 0
  /\ extracted = <<>>
  /\ err = None

\* fix_vars(vars): on Windows return Ok(()) at once, else go on
FixVars(L) ==
  /\ pc = "Start"
  /\ vars' = Some(L)
  /\ pc' = IF CfgWindows THEN "ShortCircuitSuccess" ELSE "Selecting"
  /\ UNCHANGED <<platform, environ, env0, shellRead, cmd, spawned, out,
                 lines, idx, extracted, err>>

\* fix()
Fix == FixVars(<<KeyPATH>>)

\* fix_all_vars()
FixAllVars == FixVars(<<>>)

\* a direct call of fix_vars
FixVarsCall == \E L \in AllowLists : FixVars(L)

\* choose the shell and build the command
Select ==
  /\ pc = "Selecting"
  /\ shellRead' = TRUE
  /\ \E home \in HomeDirs :
       cmd' = Some([program |-> IF KeySHELL \in DOMAIN environ
                            THEN environ[KeySHELL] ELSE DefaultShell,
               args |-> <<"-ilc", "echo -n DELIM; env; echo -n DELIM; exit">>,
               envs |-> <<"DISABLE_AUTO_UPDATE", "true">>,
               cwd |-> home])
  /\ pc' = "Invoking"
  /\ UNCHANGED <<platform, vars, environ, env0, spawned, out, lines, idx,
                 extracted, err>>

\* cmd.output() fails: the error is returned as Error::Shell
LaunchFails ==
  /\ pc = "Invoking"
  /\ pc' = "ErrShell"
  /\ err' = Some([kind |-> "Shell", text |-> <<"i","o">>])
  /\ cmd' = None
  /\ UNCHANGED <<platform, vars, environ, env0, shellRead, spawned, out,
                 lines, idx, extracted>>

\* cmd.output() runs the child to its end; then the exit status is tested
Invoke ==
  /\ pc = "Invoking"
  /\ \E code \in ExitCodes, so \in Stdouts, se \in Stderrs :
       /\ out' = Some([status |-> code, stdout |-> so, stderr |-> se])
       /\ IF StatusSuccess(code)
          THEN pc' = "Parsing" /\ err' = None
          ELSE /\ pc' = "ErrEchoFailed"
               /\ err' = Some([kind |-> "EchoFailed",
                                text |-> FromUtf8Lossy(se)])
  /\ spawned' = spawned + 1
  /\ cmd' = None
  /\ UNCHANGED <<platform, vars, environ, env0, shellRead, lines, idx,
                 extracted>>

\* decode, take the piece after the first delimiter, strip, split into lines
Parse ==
  /\ pc = "Parsing"
  /\ LET stdout == FromUtf8Lossy(SomeOf(out).stdout)
         env    == Nth1(Split(stdout, DELIM))
     IN  IF env = None
         THEN /\ pc' = "ErrInvalidOutput"
              /\ err' = Some([kind |-> "InvalidOutput", text |-> stdout])
              /\ UNCHANGED <<lines, idx>>
         ELSE /\ lines' = NonEmptyLines(FromUtf8Lossy(StripAnsi(SomeOf(env))))
              /\ idx' = 1
              /\ pc' = "Merging"
              /\ err' = None
  /\ UNCHANGED <<platform, vars, environ, env0, shellRead, cmd, spawned, out,
                 extracted>>

\* one iteration of the for loop
MergeLine ==
  /\ pc = "Merging"
  /\ idx <= Len(lines)
  /\ LET s == Splitn2(lines[idx])
     IN  IF Len(s) = 2
         THEN /\ extracted' = Append(extracted, s)
              /\ IF Accepts(SomeOf(vars), s[1])
                 THEN IF SetVarPanics(s[1], s[2])
                      THEN pc' = "Panicked" /\ UNCHANGED <<environ, idx>>
                      ELSE /\ environ' = SetVar(environ, s[1], s[2])
                           /\ idx' = idx + 1
                           /\ pc' = "Merging"
                 ELSE idx' = idx + 1 /\ UNCHANGED <<environ, pc>>
         ELSE idx' = idx + 1 /\ UNCHANGED <<environ, pc, extracted>>
  /\ UNCHANGED <<platform, vars, env0, shellRead, cmd, spawned, out, lines,
                 err>>

\* the loop is over: Ok(())
Return ==
  /\ pc = "Merging"
  /\ idx > Len(lines)
  /\ pc' = "Success"
  /\ UNCHANGED <<platform, vars, environ, env0, shellRead, cmd, spawned, out,
                 lines, idx, extracted, err>>

Next ==
  \/ Fix
  \/ FixAllVars
  \/ FixVarsCall
  \/ Select
  \/ LaunchFails
  \/ Invoke
  \/ Parse
  \/ MergeLine
  \/ Return

Spec == Init /\ [][Next]_allvars

----------------------------------------------------------------------------
(* Vocabulary of the properties, stated on positions rather than by the    *)
(* pipeline's own functions.                                               *)

Min(S) == CHOOSE x \in S : \A y \in S : x <= y
Max(S) == CHOOSE x \in S : \A y \in S : y <= x

\* the decoded standard output of the child
Text == FromUtf8Lossy(SomeOf(out).stdout)

\* the positions at which the delimiter token occurs in s
DelimAt(s) ==
  {i \in 1..Len(s) : /\ i + Len(DELIM) - 1 <= Len(s)
                     /\ SubSeq(s, i, i + Len(DELIM) - 1) = DELIM}
FirstDelim(s) == Min(DelimAt(s))
\* the occurrences that start after the first one has ended
LaterDelims(s) == {i \in DelimAt(s) : i >= FirstDelim(s) + Len(DELIM)}
HasTwoDelims(s) == DelimAt(s) # {} /\ LaterDelims(s) # {}
SecondDelim(s) == Min(LaterDelims(s))
\* the text strictly between the first and the second occurrence
FrameBetween(s) == SubSeq(s, FirstDelim(s) + Len(DELIM), SecondDelim(s) - 1)

\* a line's record: the text before its first '=' and the text after it
EqAt(l) == {i \in 1..Len(l) : l[i] = "="}
HasEq(l) == EqAt(l) # {}
KeyOf(l) == SubSeq(l, 1, Min(EqAt(l)) - 1)
ValueOf(l) == SubSeq(l, Min(EqAt(l)) + 1, Len(l))

\* the allow-list L lets key k through
Wanted(L, k) == L = <<>> \/ \E i \in 1..Len(L) : L[i] = k

\* the lines of ls that carry a record the allow-list lets through
WantedLines(ls, L) ==
  {i \in 1..Len(ls) : HasEq(ls[i]) /\ Wanted(L, KeyOf(ls[i]))}
HitsOf(ls, L, k) == {i \in WantedLines(ls, L) : KeyOf(ls[i]) = k}

\* environment e0 after every record of ls that L lets through has been set
ExpectedEnv(e0, ls, L) ==
  [k \in DOMAIN e0 \cup {KeyOf(ls[i]) : i \in WantedLines(ls, L)} |->
     IF HitsOf(ls, L, k) # {} THEN ValueOf(ls[Max(HitsOf(ls, L, k))])
     ELSE e0[k]]

Merged == pc \in {"Merging", "Success", "Panicked"}
\* the call has ended after merging a frame closed by the second delimiter
EndedOnFrame == pc \in {"Success", "Panicked"} /\ HasTwoDelims(Text)
Failures == {"ErrShell", "ErrInvalidOutput", "ErrEchoFailed"}

\* the number of lines the loop has gone through (a line whose set_var
\* panicked was split, and was not applied)
LinesSplit == IF pc = "Panicked" THEN idx ELSE idx - 1
LinesApplied == idx - 1

----------------------------------------------------------------------------
(* The claims.                                                             *)

\* C1: when the call has ended after merging a frame, every record of the
\* frame has been applied if and only if the allow-list is empty or holds its
\* key: the environment is the initial one with exactly those records set.
C1_AppliedIffAccepted ==
  EndedOnFrame =>
    environ = ExpectedEnv(env0, lines, SomeOf(vars))

\* C2: when the shell exited with status 0 and the decoded output holds fewer
\* than two delimiter occurrences, the call ends with InvalidOutput carrying
\* the whole decoded text.
C2_FewerThanTwoDelimsIsInvalidOutput ==
  (out # None /\ pc # "Parsing" /\ SomeOf(out).status = 0
     /\ ~HasTwoDelims(Text)) =>
    /\ pc = "ErrInvalidOutput"
    /\ err = Some([kind |-> "InvalidOutput", text |-> Text])

C4_FinalValueIsLastLine ==
  EndedOnFrame =>
    \A i \in WantedLines(lines, SomeOf(vars)) :
      LET k == KeyOf(lines[i])
          same == HitsOf(lines, SomeOf(vars), k)
      IN  (k # <<>> /\ Cardinality(same) >= 2) =>
            k \in DOMAIN environ /\ environ[k] = ValueOf(lines[Max(same)])

\* C5: a non-zero exit status always ends the call with EchoFailed carrying
\* the decoded standard error; nothing is parsed and nothing is set.
C5_NonZeroExitIsEchoFailed ==
  (out # None /\ SomeOf(out).status # 0) =>
    /\ pc = "ErrEchoFailed"
    /\ err = Some([kind |-> "EchoFailed",
                   text |-> FromUtf8Lossy(SomeOf(out).stderr)])
    /\ lines = <<>> /\ extracted = <<>>
    /\ environ = env0

\* C5 witness: exit status 1 with "boom" and a stray byte on standard error
\* (decoded as "boom" and U+FFFD), while standard
\* output held a well-formed frame with a record for PATH.
C5_Witness ==
  /\ pc = "ErrEchoFailed"
  /\ SomeOf(out).status = 1
  /\ SomeOf(err).text = <<"b","o","o","m","U+FFFD">>
  /\ HasTwoDelims(Text)
  /\ FrameBetween(Text) = FromUtf8Lossy(RecPathA)

\* C6: with at least two delimiter occurrences, the lines that are parsed are
\* those of the text strictly between the first and the second occurrence.
C6_FrameIsBetweenFirstTwo ==
  (Merged /\ HasTwoDelims(Text)) =>
    lines = NonEmptyLines(StripAnsi(FrameBetween(Text)))

\* C6 witness: noise, delimiter, PATH=/a, delimiter, noise, delimiter, noise
\* gave exactly the one record PATH=/a.
C6_Witness ==
  /\ pc = "Success"
  /\ Text = Join(<<NoisePath, RecPathA, NoisePath, NoisePath>>, DELIM)
  /\ extracted = << <<KeyPATH, <<"/","a">> >> >>
  /\ SomeOf(vars) = <<>>
  /\ environ[KeyPATH] = <<"/","a">>

\* C7: when the call has ended after merging a frame that holds a line
\* without '=', the records extracted are those of all the lines that hold
\* '=', before and after it, each split at its first '=', in line order, and
\* each variable (of a non-empty name) the allow-list lets through is set.
C7_WellFormedLinesExtracted ==
  (EndedOnFrame
     /\ \E j \in 1..Len(lines) : ~HasEq(lines[j])) =>
    LET good == {i \in 1..Len(lines) : HasEq(lines[i])}
        nth(n) == CHOOSE i \in good : Cardinality({j \in good : j <= i}) = n
    IN  /\ Len(extracted) = Cardinality(good)
        /\ \A n \in 1..Len(extracted) :
             extracted[n] = <<KeyOf(lines[nth(n)]), ValueOf(lines[nth(n)])>>
        /\ \A i \in WantedLines(lines, SomeOf(vars)) :
             KeyOf(lines[i]) # <<>> => KeyOf(lines[i]) \in DOMAIN environ

\* C8: on Windows a call only returns success: SHELL is not read, no process
\* is spawned, no command is built and the environment is not changed.
C8_WindowsNoOp ==
  platform = "windows" =>
    /\ pc \in {"Start", "ShortCircuitSuccess"}
    /\ ~shellRead
    /\ spawned = 0
    /\ cmd = None /\ out = None /\ err = None
    /\ environ = env0

\* C8 witness: fix() has returned on Windows.
C8_Witness ==
  /\ platform = "windows"
  /\ pc = "ShortCircuitSuccess"
  /\ vars = Some(<<KeyPATH>>)

\* C9: once the shell has exited with status 0 and a frame has been found,
\* the merge cannot fail: the call is still merging or has returned success
\* with every accepted record applied.
C9_MergeCannotFail ==
  (Merged /\ HasTwoDelims(Text)) =>
    /\ pc \in {"Merging", "Success"}
    /\ pc = "Success" => environ = ExpectedEnv(env0, lines, SomeOf(vars))

\* C10: a call is in one of the four stages or has ended in short-circuit
\* success, success or one of the three failures, and has spawned at most one
\* child.
C10_EndsInListedTerminal ==
  /\ pc \in {"Start", "Selecting", "Invoking", "Parsing", "Merging",
             "ShortCircuitSuccess", "Success"} \cup Failures
  /\ spawned <= 1

----------------------------------------------------------------------------
(* What holds of the loop in every state, the panic of set_var included.   *)

\* Only keys the allow-list lets through are ever set, and the environment is
\* the initial one with the records of the lines applied so far.
OnlyWantedKeysSet ==
  Merged =>
    environ = ExpectedEnv(env0, SubSeq(lines, 1, LinesApplied), SomeOf(vars))

\* The records extracted so far are those of the lines gone through that hold
\* '=', split at the first '='; a line without '=' never ends the call.
RecordsSplitAtFirstEq ==
  Merged =>
    LET good == {i \in 1..LinesSplit : HasEq(lines[i])}
        nth(n) == CHOOSE i \in good : Cardinality({j \in good : j <= i}) = n
    IN  /\ \A i \in 1..Len(lines) :
             lines[i] # <<>> /\ "LF" \notin Range(lines[i])
        /\ Len(extracted) = Cardinality(good)
        /\ \A n \in 1..Len(extracted) :
             extracted[n] = <<KeyOf(lines[nth(n)]), ValueOf(lines[nth(n)])>>
        /\ pc = "Panicked" => HasEq(lines[idx]) /\ KeyOf(lines[idx]) = <<>>
        /\ pc = "Success" => LinesSplit = Len(lines)

\* Every step moves the call strictly forward (the loop, line by line), a
\* call that has ended takes no further step, and one child at most is spawned.
Rank(p) ==
  CASE p = "Start" -> 0
    [] p = "Selecting" -> 1
    [] p = "Invoking" -> 2
    [] p = "Parsing" -> 3
    [] p = "Merging" -> 4
    [] OTHER -> 5
StrictlyForward ==
  [][/\ Rank(pc') >= Rank(pc)
     /\ (Rank(pc') = Rank(pc) => pc = "Merging" /\ idx' = idx + 1)
     /\ spawned' <= 1]_allvars

====
